---- MODULE Spec2Model ----
(***************************************************************************)
(* QRupees (src/QFInance.py): the DBAdapter store with its two backends,   *)
(* the administrator bootstrap, the session flags and the Login, Logout,   *)
(* Trader Registration and Admin Approvals handlers of the Streamlit       *)
(* script; the three market-data fetchers, the 60-second cache of          *)
(* get_today_prices and the pages that read them.                          *)
(*                                                                         *)
(* Representation.  A table is the sequence of its rows in insertion       *)
(* order.  A users row is [id, email, password, is_admin]; a registrations *)
(* row is [id, user_id, full_name, approved] (the other 23 profile columns *)
(* are written once and never read by the code modelled here).  The        *)
(* approved cell is held as the text str() gives for it: "0", "1", or ""   *)
(* for a blank spreadsheet cell.  Bytes are <<"b", x>> and text is         *)
(* <<"s", x>>, so that the latin-1 round trip of the password hash in the  *)
(* spreadsheet backend is a real conversion.                               *)
(***************************************************************************)
EXTENDS Integers, Sequences, FiniteSets, TLC

VARIABLES db, session, ev, now, cache, log, screen,
          reachable, self_mode, db_file, task

vars == <<db, session, ev, now, cache, log, screen,
          reachable, self_mode, db_file, task>>

\* The spreadsheet service seen from the server (reachable), the mode of
\* the DBAdapter instance in use (self_mode) and the local database file
\* that stands beside a configured spreadsheet (db_file).
remote == <<reachable, self_mode, db_file>>

\* What the store and session handlers never touch.
outside == <<now, cache, log, screen, remote, task>>

(***************************************************************************)
(* Bounds of the model.                                                    *)
(***************************************************************************)
MaxUsers == 3
MaxRegs == 2
NumSessions == 2
StoreMaxUsers == 2
StoreMaxRegs == 2

Sessions == 1 .. NumSessions

(***************************************************************************)
(* Values.                                                                 *)
(***************************************************************************)
admin_email == "admin@qrupees.com"

TraderEmails == {"asha@x.np", "bina@x.np"}
Emails == {admin_email} \cup TraderEmails
Passwords == {"adminpass", "pw1"}
FullNames == {"", "Asha"}
\* A phone number is the sequence of its characters.
Phones == {<<>>, <<"9", "8">>,
           <<"9", "8", "0", "0", "0", "0", "0", "0", "0", "0">>,
           <<"+", "9", "7", "7", "9", "8", "0", "0", "0", "0", "0">>}
Digits == {"0", "1", "2", "3", "4", "5", "6", "7", "8", "9"}
EmailInputs == Emails \cup {"", "not-an-email"}
\* about_yourself is held as the number of words split() finds in it.
WordCounts == {150, 151}

None == <<>>
NoEmail == "None"

Modes == {"sqlite", "gsheets"}

(***************************************************************************)
(* bcrypt and latin-1.                                                     *)
(***************************************************************************)
hash_password(password) == <<"b", password>>

\* check_password as it would be if every password were accepted.
check_password_any(hashed, password) == TRUE

check_password(hashed, password) == hashed = <<"b", password>>

decode_latin1(bytes) == <<"s", bytes[2]>>

encode_latin1(text) == <<"b", text[2]>>

admin_pass == hash_password("adminpass")

(***************************************************************************)
(* Helpers over tables.                                                    *)
(***************************************************************************)
Indices(rows, P(_)) == {i \in DOMAIN rows : P(rows[i])}

MinOf(S) == CHOOSE x \in S : \A y \in S : x <= y

MaxId(rows) ==
    IF rows = <<>> THEN 0
    ELSE LET ids == {rows[i].id : i \in DOMAIN rows}
         IN  CHOOSE x \in ids : \A y \in ids : y <= x

(***************************************************************************)
(* DBAdapter.  d is the adapter with the store behind it:                  *)
(* [mode, users, regs, lastrowid]; lastrowid is the sqlite cursor's.       *)
(* Each operation gives [db |-> the store afterwards, ret |-> its result]. *)
(***************************************************************************)
EmptyStore(mode) ==
    [mode |-> mode, users |-> <<>>, regs |-> <<>>, lastrowid |-> 0]

\* __init__: the mode follows the configuration; the sqlite branch opens a
\* new connection (its last insert rowid is 0) and keeps existing tables.
DBAdapter(d) ==
    IF d.mode = "sqlite" THEN [d EXCEPT !.lastrowid = 0] ELSE d

get_user(d, email) ==
    LET hits == Indices(d.users, LAMBDA r : r.email = email)
    IN  IF hits = {} THEN None
        ELSE LET r == d.users[MinOf(hits)]
             IN  IF d.mode = "gsheets"
                 THEN <<r.id, encode_latin1(r.password), r.is_admin>>
                 ELSE <<r.id, r.password, r.is_admin>>

\* create_user as it would be if it returned the row count read before the
\* insert (the id without the + 1).
create_user_staleid(d, email, password_hash, is_admin) ==
    IF d.mode = "gsheets"
    THEN [db |-> [d EXCEPT !.users = Append(@,
                     [id |-> Len(d.users) + 1, email |-> email,
                      password |-> decode_latin1(password_hash),
                      is_admin |-> is_admin])],
          ret |-> Len(d.users)]
    ELSE IF \E i \in DOMAIN d.users : d.users[i].email = email
         THEN [db |-> d, ret |-> d.lastrowid]
         ELSE [db |-> [d EXCEPT !.users = Append(@,
                          [id |-> MaxId(d.users) + 1, email |-> email,
                           password |-> password_hash,
                           is_admin |-> is_admin]),
                        !.lastrowid = MaxId(d.users) + 1],
               ret |-> MaxId(d.users)]

create_user(d, email, password_hash, is_admin) ==
    IF d.mode = "gsheets"
    THEN LET new_id == Len(d.users) + 1
         IN  [db |-> [d EXCEPT !.users = Append(@,
                          [id |-> new_id, email |-> email,
                           password |-> decode_latin1(password_hash),
                           is_admin |-> is_admin])],
              ret |-> new_id]
    ELSE IF \E i \in DOMAIN d.users : d.users[i].email = email
         THEN [db |-> d, ret |-> d.lastrowid]
         ELSE LET rowid == MaxId(d.users) + 1
              IN  [db |-> [d EXCEPT !.users = Append(@,
                               [id |-> rowid, email |-> email,
                                password |-> password_hash,
                                is_admin |-> is_admin]),
                             !.lastrowid = rowid],
                   ret |-> rowid]

\* get_registration as it would be without the user_id filter.
get_registration_nofilter(d, user_id) ==
    IF d.regs = <<>> THEN None ELSE <<d.regs[1].approved>>

get_registration(d, user_id) ==
    LET hits == Indices(d.regs, LAMBDA r : r.user_id = user_id)
    IN  IF hits = {} THEN None
        ELSE <<d.regs[MinOf(hits)].approved>>

\* create_registration as it would be if it inserted approved = 1.
create_registration_approved(d, data) ==
    LET rowid == MaxId(d.regs) + 1
    IN  [d EXCEPT !.regs = Append(@,
            [id |-> rowid, user_id |-> data[1],
             full_name |-> data[2], approved |-> "1"]),
                  !.lastrowid = IF d.mode = "sqlite" THEN rowid ELSE @]

\* data is <<user_id, full_name>> of the 25-tuple the caller passes.
create_registration(d, data) ==
    IF d.mode = "gsheets"
    THEN LET new_id == Len(d.regs) + 1
         IN  [d EXCEPT !.regs = Append(@,
                 [id |-> new_id, user_id |-> data[1],
                  full_name |-> data[2], approved |-> ""])]
    ELSE LET rowid == MaxId(d.regs) + 1
         IN  [d EXCEPT !.regs = Append(@,
                 [id |-> rowid, user_id |-> data[1],
                  full_name |-> data[2], approved |-> "0"]),
                       !.lastrowid = rowid]

\* gsheets: user_map.get(r['user_id'], "Unknown"); in the dict the last row
\* with an id wins.
PendingRow(d, r) ==
    LET owners == Indices(d.users, LAMBDA u : u.id = r.user_id)
    IN  <<r.id,
          IF owners = {} THEN "Unknown"
          ELSE d.users[CHOOSE i \in owners : \A j \in owners : j <= i].email,
          r.full_name, r.approved>>

\* sqlite: registrations r JOIN users u ON r.user_id = u.id.
JoinedRow(d, r) ==
    LET owners == Indices(d.users, LAMBDA u : u.id = r.user_id)
    IN  <<r.id, d.users[MinOf(owners)].email, r.full_name, r.approved>>

get_pending_registrations(d) ==
    IF d.mode = "gsheets"
    THEN LET rows == SelectSeq(d.regs, LAMBDA r : r.approved = "0")
         IN  [i \in 1 .. Len(rows) |-> PendingRow(d, rows[i])]
    ELSE LET rows == SelectSeq(d.regs, LAMBDA r :
                         /\ r.approved = "0"
                         /\ \E i \in DOMAIN d.users : d.users[i].id = r.user_id)
         IN  [i \in 1 .. Len(rows) |-> JoinedRow(d, rows[i])]

\* approve_registration as it would be if it flipped the flag.
approve_registration_toggle(d, reg_id) ==
    [d EXCEPT !.regs =
        [i \in DOMAIN @ |->
            IF @[i].id = reg_id
            THEN [@[i] EXCEPT !.approved = IF @ = "1" THEN "0" ELSE "1"]
            ELSE @[i]]]

approve_registration(d, reg_id) ==
    IF d.mode = "gsheets"
    THEN LET hits == Indices(d.regs, LAMBDA r : r.id = reg_id)
         IN  IF hits = {} THEN d
             ELSE [d EXCEPT !.regs[MinOf(hits)].approved = "1"]
    ELSE [d EXCEPT !.regs =
             [i \in DOMAIN @ |->
                 IF @[i].id = reg_id THEN [@[i] EXCEPT !.approved = "1"]
                 ELSE @[i]]]

(***************************************************************************)
(* Administrator bootstrap, run by every execution of the script.          *)
(***************************************************************************)
\* The bootstrap as it would be without the existence check.
bootstrap_nocheck(d) == create_user(d, admin_email, admin_pass, 1).db

bootstrap(d) ==
    IF d.mode = "sqlite"
    THEN IF \E i \in DOMAIN d.users : d.users[i].email = admin_email
         THEN d
         ELSE create_user(d, admin_email, admin_pass, 1).db
    ELSE IF get_user(d, admin_email) = None
         THEN create_user(d, admin_email, admin_pass, 1).db
         ELSE d

\* Lines 188-202 of one script run: db = DBAdapter(), then the bootstrap.
Boot(d) == bootstrap(DBAdapter(d))

(***************************************************************************)
(* Session state and navigation.                                           *)
(***************************************************************************)
NewSession ==
    [authenticated |-> FALSE, user_email |-> NoEmail, is_admin |-> FALSE]

PublicPages ==
    <<"Home", "Features", "Live Data", "Pricing", "About",
      "Regulatory & Trust", "Login", "Trader Registration">>

\* pages.insert(4, "Admin Approvals") for an administrator.
PrivatePages(is_admin) ==
    IF is_admin
    THEN <<"Dashboard", "Stock Analysis", "Portfolio", "Community Insights",
           "Admin Approvals", "Settings", "Logout">>
    ELSE <<"Dashboard", "Stock Analysis", "Portfolio", "Community Insights",
           "Settings", "Logout">>

\* The options of the sidebar selectbox.
pages(st) ==
    IF st.authenticated THEN PrivatePages(st.is_admin) ELSE PublicPages

Offered(st) == {pages(st)[i] : i \in DOMAIN pages(st)}

str(v) == IF v = 1 THEN "1" ELSE "0"

(***************************************************************************)
(* Login button handler: the session afterwards, the state of the login    *)
(* attempt, and whether get_registration was called.                       *)
(***************************************************************************)
\* login as it would be without the administrator bypass.
login_nobypass(d, st, email, password) ==
    LET user == get_user(d, email)
    IN  IF user # None /\ check_password(user[2], password)
        THEN LET reg == get_registration(d, user[1])
                 is_admin_flag == str(user[3]) = "1"
                 is_approved_flag == reg # None /\ reg[1] = "1"
             IN  IF is_approved_flag
                 THEN [st |-> [authenticated |-> TRUE, user_email |-> email,
                               is_admin |-> is_admin_flag],
                       outcome |-> "Authenticated", consulted |-> TRUE]
                 ELSE [st |-> st, outcome |-> "PendingApproval",
                       consulted |-> TRUE]
        ELSE [st |-> st, outcome |-> "CredentialsInvalid",
              consulted |-> FALSE]

\* login as it would be if it set is_admin for every authenticated session.
login_alladmin(d, st, email, password) ==
    LET user == get_user(d, email)
    IN  IF user # None /\ check_password(user[2], password)
        THEN LET reg == get_registration(d, user[1])
                 is_admin_flag == str(user[3]) = "1"
                 is_approved_flag == reg # None /\ reg[1] = "1"
             IN  IF is_approved_flag \/ is_admin_flag
                 THEN [st |-> [authenticated |-> TRUE, user_email |-> email,
                               is_admin |-> TRUE],
                       outcome |-> "Authenticated", consulted |-> TRUE]
                 ELSE [st |-> st, outcome |-> "PendingApproval",
                       consulted |-> TRUE]
        ELSE [st |-> st, outcome |-> "CredentialsInvalid",
              consulted |-> FALSE]

login(d, st, email, password) ==
    LET user == get_user(d, email)
    IN  IF user # None /\ check_password(user[2], password)
        THEN LET reg == get_registration(d, user[1])
                 is_admin_flag == str(user[3]) = "1"
                 is_approved_flag == reg # None /\ reg[1] = "1"
             IN  IF is_approved_flag \/ is_admin_flag
                 THEN [st |-> [authenticated |-> TRUE, user_email |-> email,
                               is_admin |-> is_admin_flag],
                       outcome |-> "Authenticated", consulted |-> TRUE]
                 ELSE [st |-> st, outcome |-> "PendingApproval",
                       consulted |-> TRUE]
        ELSE [st |-> st, outcome |-> "CredentialsInvalid",
              consulted |-> FALSE]

\* logout as it would be if it left is_admin alone.
logout_keepadmin(st) ==
    [authenticated |-> FALSE, user_email |-> NoEmail, is_admin |-> st.is_admin]

logout(st) ==
    [authenticated |-> FALSE, user_email |-> NoEmail, is_admin |-> FALSE]

(***************************************************************************)
(* Trader Registration form.                                               *)
(***************************************************************************)
MinPhoneLen == 10
MaxAboutWords == 150

\* re.match(r"[^@]+@[^@]+\.[^@]+", email), over EmailInputs.
valid_email(email) == email \in Emails

valid_phone(phone) ==
    Len(phone) >= MinPhoneLen /\ \A i \in DOMAIN phone : phone[i] \in Digits

Forms ==
    [full_name : FullNames, email : EmailInputs, password : {"pw1"},
     phone : Phones, consent : BOOLEAN, about_words : WordCounts]

\* submit_registration as it would be without the 150-word check.
submit_registration_nowordcheck(d, f) ==
    IF f.full_name = "" \/ f.email = "" \/ f.phone = <<>>
    THEN [db |-> d, outcome |-> "RequiredMissing"]
    ELSE IF ~valid_email(f.email)
    THEN [db |-> d, outcome |-> "InvalidEmail"]
    ELSE IF ~valid_phone(f.phone)
    THEN [db |-> d, outcome |-> "InvalidPhone"]
    ELSE IF ~f.consent
    THEN [db |-> d, outcome |-> "NoConsent"]
    ELSE IF get_user(d, f.email) # None
    THEN [db |-> d, outcome |-> "AlreadyRegistered"]
    ELSE LET hashed == hash_password(f.password)
             made == create_user(d, f.email, hashed, 0)
         IN  [db |-> create_registration(made.db, <<made.ret, f.full_name>>),
              outcome |-> "Submitted"]

\* The Submit Registration handler: the store afterwards and the message.
submit_registration(d, f) ==
    IF f.full_name = "" \/ f.email = "" \/ f.phone = <<>>
    THEN [db |-> d, outcome |-> "RequiredMissing"]
    ELSE IF ~valid_email(f.email)
    THEN [db |-> d, outcome |-> "InvalidEmail"]
    ELSE IF ~valid_phone(f.phone)
    THEN [db |-> d, outcome |-> "InvalidPhone"]
    ELSE IF ~f.consent
    THEN [db |-> d, outcome |-> "NoConsent"]
    ELSE IF f.about_words > MaxAboutWords
    THEN [db |-> d, outcome |-> "AboutTooLong"]
    ELSE IF get_user(d, f.email) # None
    THEN [db |-> d, outcome |-> "AlreadyRegistered"]
    ELSE LET hashed == hash_password(f.password)
             made == create_user(d, f.email, hashed, 0)
         IN  [db |-> create_registration(made.db, <<made.ret, f.full_name>>),
              outcome |-> "Submitted"]

(***************************************************************************)
(* Market data.  A text that the code searches or compares (a column       *)
(* header) is the sequence of its characters.  A DataFrame is its column   *)
(* headers and its number of rows; pd.DataFrame() has neither.  A response *)
(* of the exchange's site is ok (a table was read: headers and rows) or    *)
(* not (connection error, HTTP error status, no table in the body).        *)
(***************************************************************************)
TTL == 60

\* The steps of the wall clock between two runs, and where the model stops
\* the clock.
Ticks == {30}
MaxTime == 60
\* The number of get_today_prices calls and clears whose record is kept.
MaxLog == 3

\* "Symbol"
Symbol == <<"S", "y", "m", "b", "o", "l">>
\* "Stock Symbol"
StockSymbol == <<"S", "t", "o", "c", "k", " ", "S", "y", "m", "b", "o", "l">>
\* "Traded Companies"
TradedCompanies ==
    <<"T", "r", "a", "d", "e", "d", " ", "C", "o", "m", "p", "a", "n", "i",
      "e", "s">>
\* "Company"
Company == <<"C", "o", "m", "p", "a", "n", "y">>
\* "LTP"
LTP == <<"L", "T", "P">>
\* "Closing Price"
ClosingPrice ==
    <<"C", "l", "o", "s", "i", "n", "g", " ", "P", "r", "i", "c", "e">>
\* "Close Price"
ClosePrice == <<"C", "l", "o", "s", "e", " ", "P", "r", "i", "c", "e">>
\* "Last Traded Price"
LastTradedPrice ==
    <<"L", "a", "s", "t", " ", "T", "r", "a", "d", "e", "d", " ", "P", "r",
      "i", "c", "e">>
\* "Difference Rs."
DifferenceRs ==
    <<"D", "i", "f", "f", "e", "r", "e", "n", "c", "e", " ", "R", "s", ".">>
\* "Change"
Change == <<"C", "h", "a", "n", "g", "e">>
\* "Point Change"
PointChange == <<"P", "o", "i", "n", "t", " ", "C", "h", "a", "n", "g", "e">>
\* "Amount Rs."
AmountRs == <<"A", "m", "o", "u", "n", "t", " ", "R", "s", ".">>
\* "Turnover"
Turnover == <<"T", "u", "r", "n", "o", "v", "e", "r">>
\* "Traded Shares"
TradedShares ==
    <<"T", "r", "a", "d", "e", "d", " ", "S", "h", "a", "r", "e", "s">>

kw_amount == <<"a", "m", "o", "u", "n", "t">>
kw_turnover == <<"t", "u", "r", "n", "o", "v", "e", "r">>
kw_quantity == <<"q", "u", "a", "n", "t", "i", "t", "y">>
kw_volume == <<"v", "o", "l", "u", "m", "e">>
kw_shares == <<"s", "h", "a", "r", "e", "s">>

col_symbol == <<"s", "y", "m", "b", "o", "l">>
col_name == <<"n", "a", "m", "e">>
col_id == <<"i", "d">>
col_businessDate ==
    <<"b", "u", "s", "i", "n", "e", "s", "s", "D", "a", "t", "e">>
col_closingPrice ==
    <<"c", "l", "o", "s", "i", "n", "g", "P", "r", "i", "c", "e">>

Upper ==
    <<"A", "B", "C", "D", "E", "F", "G", "H", "I", "J", "K", "L", "M",
      "N", "O", "P", "Q", "R", "S", "T", "U", "V", "W", "X", "Y", "Z">>
Lower ==
    <<"a", "b", "c", "d", "e", "f", "g", "h", "i", "j", "k", "l", "m",
      "n", "o", "p", "q", "r", "s", "t", "u", "v", "w", "x", "y", "z">>

\* str.lower()
lower(t) ==
    [i \in DOMAIN t |->
        IF \E k \in DOMAIN Upper : Upper[k] = t[i]
        THEN Lower[CHOOSE k \in DOMAIN Upper : Upper[k] = t[i]]
        ELSE t[i]]

\* kw in t
contains(t, kw) ==
    \E i \in 1 .. (Len(t) - Len(kw) + 1) : SubSeq(t, i, i + Len(kw) - 1) = kw

\* The header rows the site is taken to answer with.
HeaderLists ==
    {<<Symbol, LTP, Change, Turnover>>,
     <<StockSymbol, ClosingPrice, DifferenceRs, AmountRs>>,
     <<TradedCompanies, Symbol, LTP, TradedShares>>}

RowCounts == {0, 2}

NoResponse == [ok |-> FALSE, columns |-> <<>>, rows |-> 0]

\* Responses to GET /today-price.
TodayResponses ==
    {NoResponse}
        \cup {[ok |-> TRUE, columns |-> h, rows |-> 2] : h \in HeaderLists}
        \cup {[ok |-> TRUE, columns |-> <<Symbol, LTP>>, rows |-> 0]}

\* Responses to GET /company and to GET /company/transaction-history: the
\* number of records in the body.
ListResponses ==
    {NoResponse} \cup {[ok |-> TRUE, columns |-> <<>>, rows |-> n] :
                           n \in RowCounts}

\* pd.DataFrame()
EmptyFrame == [columns |-> <<>>, rows |-> 0]

\* df.empty
empty(df) == df.columns = <<>> \/ df.rows = 0

\* The body of get_today_prices: what one HTTP fetch gives.
fetch_today_prices(resp) ==
    IF resp.ok THEN [columns |-> resp.columns, rows |-> resp.rows]
    ELSE EmptyFrame

\* get_today_prices.clear()
clear(c) == <<>>

\* get_today_prices as it would be with no cache around it.
get_today_prices_nocache(c, t, resp) ==
    LET df == fetch_today_prices(resp)
    IN  [cache |-> <<[value |-> df, at |-> t]>>, value |-> df,
         fetched |-> TRUE]

\* st.cache_data(ttl=60) around get_today_prices: the entry of the one key,
\* <<>> or <<[value, at]>>, is served while it is younger than TTL, and
\* whatever the body returns is stored.
get_today_prices(c, t, resp) ==
    IF c # <<>> /\ t < c[1].at + TTL
    THEN [cache |-> c, value |-> c[1].value, fetched |-> FALSE]
    ELSE LET df == fetch_today_prices(resp)
         IN  [cache |-> <<[value |-> df, at |-> t]>>, value |-> df,
              fetched |-> TRUE]

\* pd.DataFrame(companies): no record, no column.
get_nepse_companies(resp) ==
    IF resp.ok /\ resp.rows > 0
    THEN [columns |-> <<col_symbol, col_name, col_id>>, rows |-> resp.rows]
    ELSE EmptyFrame

get_historical_data(resp) ==
    IF resp.ok /\ resp.rows > 0
    THEN [columns |-> <<col_businessDate, col_closingPrice>>,
          rows |-> resp.rows]
    ELSE EmptyFrame

\* No column found (None).
NoCol == <<>>

\* next((c for c in cols if kw1 in c.lower() or kw2 in c.lower() ...), None)
first_header(cols, kws) ==
    LET hits == {j \in DOMAIN cols :
                    \E k \in DOMAIN kws : contains(lower(cols[j]), kws[k])}
    IN  IF hits = {} THEN NoCol ELSE cols[MinOf(hits)]

\* for col in aliases: if col in prices.columns: found = col; break
first_alias(aliases, cols) ==
    LET hits == {i \in DOMAIN aliases :
                    \E j \in DOMAIN cols : cols[j] = aliases[i]}
    IN  IF hits = {} THEN NoCol ELSE aliases[MinOf(hits)]

\* What a page run left on the screen: the page, its state, the headers of
\* the frame it read and the column it took for each field it resolves.
Screen(page, state, columns, symbol, price, change, turnover, volume) ==
    [page |-> page, state |-> state, columns |-> columns,
     symbol |-> symbol, price |-> price, change |-> change,
     turnover |-> turnover, volume |-> volume]

NoScreen == Screen("", "", <<>>, NoCol, NoCol, NoCol, NoCol, NoCol)

live_data_page(df) ==
    IF ~empty(df)
    THEN Screen("Live Data", "data", df.columns, NoCol, NoCol, NoCol,
                first_header(df.columns, <<kw_amount, kw_turnover>>),
                first_header(df.columns,
                             <<kw_quantity, kw_volume, kw_shares>>))
    ELSE Screen("Live Data", "unavailable", df.columns,
                NoCol, NoCol, NoCol, NoCol, NoCol)

dashboard_page(df) ==
    IF ~empty(df)
    THEN LET diff_col ==
                 first_alias(<<DifferenceRs, Change, PointChange>>,
                             df.columns)
             name_col ==
                 first_alias(<<TradedCompanies, Symbol, Company>>,
                             df.columns)
         IN  Screen("Dashboard",
                    IF diff_col # NoCol /\ name_col # NoCol THEN "data"
                    ELSE "no chart",
                    df.columns, name_col, NoCol, diff_col, NoCol, NoCol)
    ELSE Screen("Dashboard", "unavailable", df.columns,
                NoCol, NoCol, NoCol, NoCol, NoCol)

portfolio_page(df) ==
    IF ~empty(df)
    THEN LET symbol_col ==
                 first_alias(<<Symbol, StockSymbol, TradedCompanies,
                               Company>>, df.columns)
             price_col ==
                 first_alias(<<LTP, ClosingPrice, ClosePrice,
                               LastTradedPrice>>, df.columns)
         IN  Screen("Portfolio",
                    IF symbol_col = NoCol \/ price_col = NoCol
                    THEN "no columns" ELSE "data",
                    df.columns, symbol_col, price_col, NoCol, NoCol, NoCol)
    ELSE Screen("Portfolio", "unavailable", df.columns,
                NoCol, NoCol, NoCol, NoCol, NoCol)

\* companies['symbol'] raises KeyError on a frame without that column, and
\* nothing catches it.
stock_analysis_page(companies, hist) ==
    IF ~\E j \in DOMAIN companies.columns : companies.columns[j] = col_symbol
    THEN Screen("Stock Analysis", "crash", companies.columns,
                NoCol, NoCol, NoCol, NoCol, NoCol)
    ELSE IF ~empty(hist)
    THEN Screen("Stock Analysis", "data", hist.columns,
                NoCol, NoCol, NoCol, NoCol, NoCol)
    ELSE Screen("Stock Analysis", "unavailable", hist.columns,
                NoCol, NoCol, NoCol, NoCol, NoCol)

\* The record of a get_today_prices call and of a clear.
Called(t, r) ==
    [kind |-> "call", t |-> t, fetched |-> r.fetched, result |-> r.value]
Cleared(t) ==
    [kind |-> "clear", t |-> t, fetched |-> FALSE, result |-> EmptyFrame]

\* A browser session with no registration submission under way.
Idle == [pc |-> "idle", email |-> NoEmail, new_id |-> 0, reg_id |-> 0]

(***************************************************************************)
(* The record of the last event, kept for stating the properties.          *)
(***************************************************************************)
Event(op, s, email, password, outcome, consulted, arg) ==
    [op |-> op, s |-> s, email |-> email, password |-> password,
     outcome |-> outcome, consulted |-> consulted, arg |-> arg]

Init ==
    /\ db \in {EmptyStore(m) : m \in Modes}
    /\ session = [s \in Sessions |-> NewSession]
    /\ ev = Event("init", 0, NoEmail, "", "", FALSE, 0)
    /\ now = 0
    /\ cache = <<>>
    /\ log = <<>>
    /\ screen = NoScreen
    /\ reachable = TRUE
    /\ self_mode = db.mode
    /\ db_file = EmptyStore("sqlite")
    /\ task = [s \in Sessions |-> Idle]

(***************************************************************************)
(* UI events.  Each is one run of the script for session s (with the run   *)
(* that st.rerun() starts, where the handler calls it).                    *)
(***************************************************************************)
\* A run that renders a page and handles no button.
View(s, page) ==
    /\ page \in Offered(session[s])
    /\ page # "Logout"
    /\ db' = Boot(db)
    /\ ev' = Event("view", s, NoEmail, "", "Rendered", FALSE, 0)
    /\ UNCHANGED <<session, outside>>

Logout(s) ==
    /\ "Logout" \in Offered(session[s])
    /\ db' = Boot(Boot(db))
    /\ session' = [session EXCEPT ![s] = logout(@)]
    /\ ev' = Event("logout", s, NoEmail, "", "LoggedOut", FALSE, 0)
    /\ UNCHANGED outside

Login(s, email, password) ==
    /\ "Login" \in Offered(session[s])
    /\ ~session[s].authenticated
    /\ LET d == Boot(db)
           r == login(d, session[s], email, password)
       IN  /\ db' = IF r.outcome = "Authenticated" THEN Boot(d) ELSE d
           /\ session' = [session EXCEPT ![s] = r.st]
           /\ ev' = Event("login", s, email, password, r.outcome,
                          r.consulted, 0)
    /\ UNCHANGED outside

\* QFInance.py imports no module re: the run that renders the registration
\* page stops at line 609 with NameError, after the bootstrap.
RegistrationNameError(s) ==
    /\ "Trader Registration" \in Offered(session[s])
    /\ db' = Boot(db)
    /\ ev' = Event("register", s, NoEmail, "", "NameError", FALSE, 0)
    /\ UNCHANGED <<session, outside>>

\* Lines 612-639 as they run where the name re is bound.
RegistrationSubmit(s, f) ==
    /\ "Trader Registration" \in Offered(session[s])
    /\ Len(db.users) < MaxUsers
    /\ Len(db.regs) < MaxRegs
    /\ LET r == submit_registration(Boot(db), f)
       IN  /\ db' = r.db
           /\ ev' = Event("register", s, f.email, f.password, r.outcome,
                          FALSE, 0)
    /\ UNCHANGED <<session, outside>>

\* The Approve button of one listed registration.
Approve(s, k) ==
    /\ session[s].authenticated
    /\ "Admin Approvals" \in Offered(session[s])
    /\ session[s].is_admin
    /\ LET d == Boot(db)
           pending == get_pending_registrations(d)
       IN  /\ k \in DOMAIN pending
           /\ db' = Boot(approve_registration(d, pending[k][1]))
           /\ ev' = Event("approve", s, pending[k][2], "", "Approved",
                          FALSE, pending[k][1])
    /\ UNCHANGED <<session, outside>>

Next ==
    \/ \E s \in Sessions : \E page \in Offered(session[s]) : View(s, page)
    \/ \E s \in Sessions : Logout(s)
    \/ \E s \in Sessions, email \in Emails, password \in Passwords :
           Login(s, email, password)
    \/ \E s \in Sessions : RegistrationNameError(s)
    \/ \E s \in Sessions, f \in Forms : RegistrationSubmit(s, f)
    \/ \E s \in Sessions, k \in 1 .. MaxRegs : Approve(s, k)

Spec == Init /\ [][Next]_vars

(***************************************************************************)
(* The DBAdapter interface driven directly: any sequence of its six        *)
(* operations on one adapter, with the arguments its callers give them     *)
(* (the bootstrap's administrator row, a trader's row, the id of an        *)
(* existing account for a registration), and login attempts and logouts    *)
(* against the store so produced.                                          *)
(***************************************************************************)
AccountArgs ==
    {<<admin_email, admin_pass, 1>>}
        \cup {<<e, hash_password("pw1"), 0>> : e \in TraderEmails}

UserIds(d) == {d.users[i].id : i \in DOMAIN d.users}

\* The one session whose login attempts read the store.
StoreSessions == {1}

CallGetUser(email) ==
    /\ ev' = Event("get_user", 0, email, "",
                   IF get_user(db, email) = None THEN "None" ELSE "Row",
                   FALSE, 0)
    /\ UNCHANGED <<db, session, outside>>

CallCreateUser(a) ==
    /\ Len(db.users) < StoreMaxUsers
    /\ LET r == create_user(db, a[1], a[2], a[3])
       IN  /\ db' = r.db
           /\ ev' = Event("create_user", 0, a[1], "",
                          IF r.db.users = db.users THEN "Ignored"
                          ELSE "Inserted", FALSE, r.ret)
    /\ UNCHANGED <<session, outside>>

CallGetRegistration(user_id) ==
    /\ ev' = Event("get_registration", 0, NoEmail, "",
                   IF get_registration(db, user_id) = None THEN "None"
                   ELSE "Row", FALSE, user_id)
    /\ UNCHANGED <<db, session, outside>>

CallCreateRegistration(user_id) ==
    /\ Len(db.regs) < StoreMaxRegs
    /\ user_id \in UserIds(db)
    /\ db' = create_registration(db, <<user_id, "Asha">>)
    /\ ev' = Event("create_registration", 0, NoEmail, "", "Inserted",
                   FALSE, user_id)
    /\ UNCHANGED <<session, outside>>

CallGetPending ==
    /\ ev' = Event("get_pending_registrations", 0, NoEmail, "", "Listed",
                   FALSE, Len(get_pending_registrations(db)))
    /\ UNCHANGED <<db, session, outside>>

CallApprove(reg_id) ==
    /\ db' = approve_registration(db, reg_id)
    /\ ev' = Event("approve_registration", 0, NoEmail, "",
                   IF db' = db THEN "Unchanged" ELSE "Changed",
                   FALSE, reg_id)
    /\ UNCHANGED <<session, outside>>

StoreNext ==
    \/ \E email \in Emails : CallGetUser(email)
    \/ \E a \in AccountArgs : CallCreateUser(a)
    \/ \E user_id \in 1 .. StoreMaxUsers : CallGetRegistration(user_id)
    \/ \E user_id \in 1 .. StoreMaxUsers : CallCreateRegistration(user_id)
    \/ CallGetPending
    \/ \E reg_id \in 1 .. StoreMaxRegs + 1 : CallApprove(reg_id)
    \/ \E s \in StoreSessions, email \in Emails, password \in Passwords :
           Login(s, email, password)
    \/ \E s \in StoreSessions : Logout(s)

StoreSpec == Init /\ [][StoreNext]_vars

(***************************************************************************)
(* Properties.                                                             *)
(***************************************************************************)
\* The password behind a stored hash, whichever backend holds it.
StoredPlain(row) == row.password[2]

HasApprovedRegistration(user_id) ==
    \E j \in DOMAIN db.regs :
        db.regs[j].user_id = user_id /\ db.regs[j].approved = "1"

ApprovedIds(d) ==
    {d.regs[j].id : j \in {k \in DOMAIN d.regs : d.regs[k].approved = "1"}}

AdminRows(d) == {i \in DOMAIN d.users : d.users[i].email = admin_email}

\* C1: a login attempt with the right password for a non-admin account
\* reaches Authenticated exactly when the account has a registration whose
\* approved flag is set; otherwise it reaches PendingApproval and the
\* session stays unauthenticated.
C1_ApprovalGate ==
    ev.op = "login" =>
        \A i \in DOMAIN db.users :
            (/\ db.users[i].email = ev.email
             /\ db.users[i].is_admin = 0
             /\ StoredPlain(db.users[i]) = ev.password)
            => IF HasApprovedRegistration(db.users[i].id)
               THEN /\ ev.outcome = "Authenticated"
                    /\ session[ev.s].authenticated
                    /\ session[ev.s].user_email = ev.email
               ELSE /\ ev.outcome = "PendingApproval"
                    /\ ~session[ev.s].authenticated

C1_Witness ==
    /\ ev.op = "login"
    /\ ev.email \in TraderEmails
    /\ ev.outcome = "Authenticated"
    /\ \E j \in DOMAIN db.regs : db.regs[j].approved # "1"

\* C2: a login attempt with the right password for an account whose
\* is_admin flag is set reaches Authenticated whatever registrations the
\* store holds, and the session's is_admin flag is then true.
C2_AdminBypass ==
    ev.op = "login" =>
        \A i \in DOMAIN db.users :
            (/\ db.users[i].email = ev.email
             /\ db.users[i].is_admin = 1
             /\ StoredPlain(db.users[i]) = ev.password)
            => /\ ev.outcome = "Authenticated"
               /\ session[ev.s].authenticated
               /\ session[ev.s].is_admin
               /\ session[ev.s].user_email = ev.email

\* An administrator logged in while holding only an unapproved registration.
C2_Witness ==
    /\ ev.op = "login"
    /\ ev.outcome = "Authenticated"
    /\ session[ev.s].is_admin
    /\ \E i \in DOMAIN db.users :
           /\ db.users[i].email = ev.email
           /\ db.users[i].is_admin = 1
           /\ \E j \in DOMAIN db.regs : db.regs[j].user_id = db.users[i].id
           /\ ~HasApprovedRegistration(db.users[i].id)

\* C3: a login attempt whose email has no account, or whose password does
\* not match the stored hash, reaches CredentialsInvalid, does not call
\* get_registration and leaves every session flag as it was.
C3_CredentialsInvalid ==
    [][(/\ ev'.op = "login"
        /\ \A i \in DOMAIN db'.users :
               db'.users[i].email = ev'.email
                   => StoredPlain(db'.users[i]) # ev'.password)
       => /\ ev'.outcome = "CredentialsInvalid"
          /\ ~ev'.consulted
          /\ session' = session]_vars

\* A wrong password for an existing account was refused.
C3_Witness ==
    /\ ev.op = "login"
    /\ ev.outcome = "CredentialsInvalid"
    /\ \E i \in DOMAIN db.users :
           /\ db.users[i].email = ev.email
           /\ StoredPlain(db.users[i]) # ev.password
           /\ \E j \in DOMAIN db.regs : db.regs[j].user_id = db.users[i].id

\* C4: a session's flags change only in a login attempt of that session
\* that reaches Authenticated (which sets authenticated) or in its Logout;
\* after Logout authenticated and is_admin are false and user_email is
\* empty; is_admin is never true in an unauthenticated session.
C4_SessionFlags ==
    [][\A s \in Sessions :
        /\ session'[s] # session[s]
               => /\ ev'.s = s
                  /\ \/ /\ ev'.op = "login"
                        /\ ev'.outcome = "Authenticated"
                        /\ session'[s].authenticated
                     \/ ev'.op = "logout"
        /\ (ev'.op = "logout" /\ ev'.s = s)
               => /\ ~session'[s].authenticated
                  /\ ~session'[s].is_admin
                  /\ session'[s].user_email = NoEmail
        /\ session'[s].is_admin => session'[s].authenticated]_vars

\* An administrator has logged out while another session is logged in.
C4_Witness ==
    /\ ev.op = "logout"
    /\ session[ev.s] = NewSession
    /\ \E s \in Sessions : session[s].authenticated

\* C5: a registration is created unapproved, and once its approved flag is
\* set no store operation clears it or removes the registration.
C5_ApprovedMonotone ==
    [][/\ \A j \in DOMAIN db.regs :
              /\ j \in DOMAIN db'.regs
              /\ db'.regs[j].id = db.regs[j].id
              /\ db.regs[j].approved = "1" => db'.regs[j].approved = "1"
       /\ \A j \in DOMAIN db'.regs :
              j \notin DOMAIN db.regs => db'.regs[j].approved # "1"]_vars

\* An approved registration, with an approval repeated on it.
C5_Witness ==
    /\ ev.op = "approve_registration"
    /\ ev.outcome = "Unchanged"
    /\ ev.arg \in ApprovedIds(db)
    /\ Len(db.regs) = StoreMaxRegs

\* C6: approve_registration runs, and an approved flag is set, only in the
\* Approve action of a session that is authenticated with is_admin true and
\* logged in to an administrator account.
C6_OnlyAdminApproves ==
    [][(ApprovedIds(db') # ApprovedIds(db) \/ ev'.op = "approve")
       => /\ ev'.op = "approve"
          /\ session[ev'.s].authenticated
          /\ session[ev'.s].is_admin
          /\ \E i \in DOMAIN db.users :
                 /\ db.users[i].email = session[ev'.s].user_email
                 /\ db.users[i].is_admin = 1]_vars

\* An approval has happened while a trader session is logged in.
C6_Witness ==
    /\ ev.op = "approve"
    /\ ApprovedIds(db) # {}
    /\ \E s \in Sessions : session[s].authenticated /\ ~session[s].is_admin

\* C7: get_pending_registrations returns exactly the registrations that are
\* not approved, each with the email of its account.
C7_PendingIsUnapproved ==
    LET pending == get_pending_registrations(db)
    IN  /\ {pending[k][1] : k \in DOMAIN pending}
               = {db.regs[j].id : j \in {k \in DOMAIN db.regs :
                                             db.regs[k].approved # "1"}}
        /\ \A k \in DOMAIN pending :
               \E j \in DOMAIN db.regs, i \in DOMAIN db.users :
                   /\ db.regs[j].id = pending[k][1]
                   /\ db.users[i].id = db.regs[j].user_id
                   /\ db.users[i].email = pending[k][2]

\* C8: approving a registration twice leaves the store as approving it once
\* does, and approving an id no registration has changes nothing.
C8_ApproveIdempotent ==
    \A reg_id \in 1 .. StoreMaxRegs + 1 :
        LET once == approve_registration(db, reg_id)
        IN  /\ approve_registration(once, reg_id) = once
            /\ (\A j \in DOMAIN db.regs : db.regs[j].id # reg_id)
                   => once = db

\* approve_registration was called on a registration already approved.
C8_Witness ==
    /\ ev.op = "approve_registration"
    /\ ev.outcome = "Unchanged"
    /\ ev.arg \in ApprovedIds(db)
    /\ \E j \in DOMAIN db.regs : db.regs[j].approved # "1"

C10_EmailsUnique ==
    \A i, j \in DOMAIN db.users :
        db.users[i].email = db.users[j].email => i = j

(***************************************************************************)
(* The pages that read market data, in one browser session; the cache of   *)
(* get_today_prices belongs to the server process.  Each action is one run *)
(* of the script, the responses of the exchange's site being its inputs.   *)
(***************************************************************************)
FeedSessions == {1}

Tick(d) ==
    /\ now + d <= MaxTime
    /\ now' = now + d
    /\ UNCHANGED <<db, session, ev, cache, log, screen, remote, task>>

\* Live Data rendered, no button pressed.
LiveData(s, resp) ==
    /\ "Live Data" \in Offered(session[s])
    /\ Len(log) < MaxLog
    /\ LET r == get_today_prices(cache, now, resp)
       IN  /\ cache' = r.cache
           /\ log' = Append(log, Called(now, r))
           /\ screen' = live_data_page(r.value)
    /\ db' = Boot(db)
    /\ UNCHANGED <<session, ev, now, remote, task>>

\* The Refresh Feed button: clear, then the rerun renders the page.
LiveDataRefresh(s, resp) ==
    /\ "Live Data" \in Offered(session[s])
    /\ Len(log) + 1 < MaxLog
    /\ LET r == get_today_prices(clear(cache), now, resp)
       IN  /\ cache' = r.cache
           /\ log' = log \o <<Cleared(now), Called(now, r)>>
           /\ screen' = live_data_page(r.value)
    /\ db' = Boot(Boot(db))
    /\ UNCHANGED <<session, ev, now, remote, task>>

\* The Retry Connection button, shown with the unavailable state: its
\* on_click clears, then the page is rendered.
LiveDataRetry(s, resp) ==
    /\ "Live Data" \in Offered(session[s])
    /\ screen.page = "Live Data"
    /\ screen.state = "unavailable"
    /\ Len(log) + 1 < MaxLog
    /\ LET r == get_today_prices(clear(cache), now, resp)
       IN  /\ cache' = r.cache
           /\ log' = log \o <<Cleared(now), Called(now, r)>>
           /\ screen' = live_data_page(r.value)
    /\ db' = Boot(db)
    /\ UNCHANGED <<session, ev, now, remote, task>>

Dashboard(s, resp) ==
    /\ session[s].authenticated
    /\ "Dashboard" \in Offered(session[s])
    /\ Len(log) < MaxLog
    /\ LET r == get_today_prices(cache, now, resp)
       IN  /\ cache' = r.cache
           /\ log' = Append(log, Called(now, r))
           /\ screen' = dashboard_page(r.value)
    /\ db' = Boot(db)
    /\ UNCHANGED <<session, ev, now, remote, task>>

\* The Simulate button of Portfolio.
Portfolio(s, resp) ==
    /\ session[s].authenticated
    /\ "Portfolio" \in Offered(session[s])
    /\ Len(log) < MaxLog
    /\ LET r == get_today_prices(cache, now, resp)
       IN  /\ cache' = r.cache
           /\ log' = Append(log, Called(now, r))
           /\ screen' = portfolio_page(r.value)
    /\ db' = Boot(db)
    /\ UNCHANGED <<session, ev, now, remote, task>>

StockAnalysis(s, resp, hresp) ==
    /\ session[s].authenticated
    /\ "Stock Analysis" \in Offered(session[s])
    /\ screen' = stock_analysis_page(get_nepse_companies(resp),
                                     get_historical_data(hresp))
    /\ db' = Boot(db)
    /\ UNCHANGED <<session, ev, now, cache, log, remote, task>>

FeedNext ==
    \/ \E d \in Ticks : Tick(d)
    \/ \E s \in FeedSessions : Login(s, admin_email, "adminpass")
    \/ \E s \in FeedSessions : Logout(s)
    \/ \E s \in FeedSessions, resp \in TodayResponses : LiveData(s, resp)
    \/ \E s \in FeedSessions, resp \in TodayResponses :
           LiveDataRefresh(s, resp)
    \/ \E s \in FeedSessions, resp \in TodayResponses :
           LiveDataRetry(s, resp)
    \/ \E s \in FeedSessions, resp \in TodayResponses : Dashboard(s, resp)
    \/ \E s \in FeedSessions, resp \in TodayResponses : Portfolio(s, resp)
    \/ \E s \in FeedSessions, resp \in ListResponses,
          hresp \in ListResponses : StockAnalysis(s, resp, hresp)

\* No spreadsheet credentials configured: the store is the local file.
FeedInit == Init /\ db.mode = "sqlite"

FeedSpec == FeedInit /\ [][FeedNext]_vars

(***************************************************************************)
(* The adapter with a spreadsheet configured and a service that comes and  *)
(* goes.  db is the spreadsheet, db_file the local file; a DBAdapter       *)
(* instance works on the one its mode names.  A gspread request raises     *)
(* when the service is unreachable.                                        *)
(***************************************************************************)
FaultMaxRegs == 1

FaultAccounts ==
    {<<admin_email, admin_pass, 1>>, <<"asha@x.np", hash_password("pw1"), 0>>}

\* The store the instance works on.
Backend == IF self_mode = "gsheets" THEN db ELSE db_file

\* A request of the instance to the spreadsheet service raises.
Raises == self_mode = "gsheets" /\ ~reachable

\* The store written back to where the instance keeps it.
Written(d) ==
    /\ db' = IF self_mode = "gsheets" THEN d ELSE db
    /\ db_file' = IF self_mode = "gsheets" THEN db_file ELSE d

\* The spreadsheet service stops answering, or answers again.
Disconnect ==
    /\ reachable
    /\ reachable' = FALSE
    /\ UNCHANGED <<db, session, ev, now, cache, log, screen, self_mode,
                   db_file, task>>

Reconnect ==
    /\ ~reachable
    /\ reachable' = TRUE
    /\ UNCHANGED <<db, session, ev, now, cache, log, screen, self_mode,
                   db_file, task>>

\* db = DBAdapter() at the top of a script run: any exception on the way to
\* the worksheets leaves mode "sqlite".
Construct ==
    /\ self_mode' = IF reachable THEN "gsheets" ELSE "sqlite"
    /\ db_file' = IF reachable THEN db_file ELSE DBAdapter(db_file)
    /\ ev' = Event("DBAdapter", 0, NoEmail, "", "Constructed", FALSE, 0)
    /\ UNCHANGED <<db, session, now, cache, log, screen, reachable, task>>

\* get_user: in gsheets mode the except clause turns any error into None.
FaultGetUser(email) ==
    /\ ev' = Event("get_user", 0, email, "",
                   "Returned", FALSE,
                   IF Raises \/ get_user(Backend, email) = None THEN 0
                   ELSE get_user(Backend, email)[1])
    /\ UNCHANGED <<db, session, now, cache, log, screen, remote, task>>

FaultCreateUser(a) ==
    /\ Len(Backend.users) < StoreMaxUsers
    /\ IF Raises
       THEN /\ ev' = Event("create_user", 0, a[1], "", "Raised", FALSE, 0)
            /\ UNCHANGED <<db, db_file>>
       ELSE LET r == create_user(Backend, a[1], a[2], a[3])
            IN  /\ Written(r.db)
                /\ ev' = Event("create_user", 0, a[1], "", "Returned",
                               FALSE, r.ret)
    /\ UNCHANGED <<session, now, cache, log, screen, reachable, self_mode,
                   task>>

FaultGetRegistration(user_id) ==
    /\ ev' = Event("get_registration", 0, NoEmail, "",
                   IF Raises THEN "Raised" ELSE "Returned", FALSE, user_id)
    /\ UNCHANGED <<db, session, now, cache, log, screen, remote, task>>

FaultCreateRegistration(user_id) ==
    /\ Len(Backend.regs) < FaultMaxRegs
    /\ user_id \in UserIds(Backend)
    /\ IF Raises
       THEN /\ ev' = Event("create_registration", 0, NoEmail, "", "Raised",
                           FALSE, user_id)
            /\ UNCHANGED <<db, db_file>>
       ELSE /\ Written(create_registration(Backend, <<user_id, "Asha">>))
            /\ ev' = Event("create_registration", 0, NoEmail, "",
                           "Returned", FALSE, user_id)
    /\ UNCHANGED <<session, now, cache, log, screen, reachable, self_mode,
                   task>>

FaultGetPending ==
    /\ ev' = Event("get_pending_registrations", 0, NoEmail, "",
                   IF Raises THEN "Raised" ELSE "Returned", FALSE,
                   IF Raises THEN 0
                   ELSE Len(get_pending_registrations(Backend)))
    /\ UNCHANGED <<db, session, now, cache, log, screen, remote, task>>

FaultApprove(reg_id) ==
    /\ IF Raises
       THEN /\ ev' = Event("approve_registration", 0, NoEmail, "", "Raised",
                           FALSE, reg_id)
            /\ UNCHANGED <<db, db_file>>
       ELSE /\ Written(approve_registration(Backend, reg_id))
            /\ ev' = Event("approve_registration", 0, NoEmail, "",
                           "Returned", FALSE, reg_id)
    /\ UNCHANGED <<session, now, cache, log, screen, reachable, self_mode,
                   task>>

StoreCalls ==
    {"get_user", "create_user", "get_registration", "create_registration",
     "get_pending_registrations", "approve_registration"}

\* The spreadsheet configured and reachable when the first instance is made.
FaultInit == Init /\ db.mode = "gsheets"

FaultNext ==
    \/ Disconnect
    \/ Reconnect
    \/ Construct
    \/ \E email \in {admin_email, "asha@x.np"} : FaultGetUser(email)
    \/ \E a \in FaultAccounts : FaultCreateUser(a)
    \/ \E user_id \in 1 .. StoreMaxUsers : FaultGetRegistration(user_id)
    \/ \E user_id \in 1 .. StoreMaxUsers : FaultCreateRegistration(user_id)
    \/ FaultGetPending
    \/ \E reg_id \in 1 .. FaultMaxRegs : FaultApprove(reg_id)

FaultSpec == FaultInit /\ [][FaultNext]_vars

(***************************************************************************)
(* The two backends side by side: the same sequence of DBAdapter calls     *)
(* applied to a spreadsheet store (db) and to a local store (db_file),     *)
(* both empty at the start.  The event keeps what each returned, the local *)
(* one first.                                                              *)
(***************************************************************************)
\* reg and str(reg[0]) == '1', as the login check reads get_registration.
reg_approved(reg) == reg # None /\ reg[1] = "1"

PairGetUser(email) ==
    /\ ev' = Event("get_user", 0, email, "", "Returned", FALSE,
                   <<get_user(db_file, email), get_user(db, email)>>)
    /\ UNCHANGED <<db, session, now, cache, log, screen, remote, task>>

PairCreateUser(a) ==
    /\ Len(db.users) < StoreMaxUsers
    /\ Len(db_file.users) < StoreMaxUsers
    /\ LET l == create_user(db_file, a[1], a[2], a[3])
           g == create_user(db, a[1], a[2], a[3])
       IN  /\ db_file' = l.db
           /\ db' = g.db
           /\ ev' = Event("create_user", 0, a[1], "", "Returned", FALSE,
                          <<l.ret, g.ret>>)
    /\ UNCHANGED <<session, now, cache, log, screen, reachable, self_mode,
                   task>>

PairGetRegistration(user_id) ==
    /\ ev' = Event("get_registration", 0, NoEmail, "", "Returned", FALSE,
                   <<reg_approved(get_registration(db_file, user_id)),
                     reg_approved(get_registration(db, user_id))>>)
    /\ UNCHANGED <<db, session, now, cache, log, screen, remote, task>>

PairCreateRegistration(user_id) ==
    /\ Len(db.regs) < StoreMaxRegs
    /\ Len(db_file.regs) < StoreMaxRegs
    /\ user_id \in UserIds(db) \cap UserIds(db_file)
    /\ db_file' = create_registration(db_file, <<user_id, "Asha">>)
    /\ db' = create_registration(db, <<user_id, "Asha">>)
    /\ ev' = Event("create_registration", 0, NoEmail, "", "Returned",
                   FALSE, <<0, 0>>)
    /\ UNCHANGED <<session, now, cache, log, screen, reachable, self_mode,
                   task>>

PairGetPending ==
    /\ ev' = Event("get_pending_registrations", 0, NoEmail, "", "Returned",
                   FALSE, <<get_pending_registrations(db_file),
                            get_pending_registrations(db)>>)
    /\ UNCHANGED <<db, session, now, cache, log, screen, remote, task>>

PairApprove(reg_id) ==
    /\ db_file' = approve_registration(db_file, reg_id)
    /\ db' = approve_registration(db, reg_id)
    /\ ev' = Event("approve_registration", 0, NoEmail, "", "Returned",
                   FALSE, <<0, 0>>)
    /\ UNCHANGED <<session, now, cache, log, screen, reachable, self_mode,
                   task>>

PairInit == Init /\ db.mode = "gsheets"

PairNext ==
    \/ \E email \in Emails : PairGetUser(email)
    \/ \E a \in AccountArgs : PairCreateUser(a)
    \/ \E user_id \in 1 .. StoreMaxUsers : PairGetRegistration(user_id)
    \/ \E user_id \in 1 .. StoreMaxUsers : PairCreateRegistration(user_id)
    \/ PairGetPending
    \/ \E reg_id \in 1 .. StoreMaxRegs : PairApprove(reg_id)

PairSpec == PairInit /\ [][PairNext]_vars

(***************************************************************************)
(* Registration submissions of several browser sessions, each run in its   *)
(* own thread of the server.  A submission with a valid form is the calls  *)
(* of lines 624-637 in order; on the spreadsheet backend create_user and   *)
(* create_registration are each two requests (get_all_records, then        *)
(* append_row) with nothing held between them, on the local backend each   *)
(* is one SQL statement.  task[s] is where session s stands and what it    *)
(* holds in its local variables.                                           *)
(***************************************************************************)
\* Line 624: existing = db.get_user(email), at the start of the run.
RegGetUser(s, email) ==
    /\ task[s].pc = "idle"
    /\ "Trader Registration" \in Offered(session[s])
    /\ Len(db.users) < MaxUsers
    /\ Len(db.regs) < MaxRegs
    /\ db' = Boot(db)
    /\ task' = [task EXCEPT ![s] =
                   IF get_user(Boot(db), email) = None
                   THEN [Idle EXCEPT !.pc = "checked", !.email = email]
                   ELSE Idle]
    /\ UNCHANGED <<session, ev, now, cache, log, screen, remote>>

\* Lines 119-120: records = get_all_records(); new_id = len(records) + 1.
RegReadUsers(s) ==
    /\ task[s].pc = "checked"
    /\ db.mode = "gsheets"
    /\ task' = [task EXCEPT ![s].pc = "read",
                            ![s].new_id = Len(db.users) + 1]
    /\ UNCHANGED <<db, session, ev, now, cache, log, screen, remote>>

\* Lines 122-123: append_row([new_id, email, ...]); return new_id.
RegAppendUser(s) ==
    /\ task[s].pc = "read"
    /\ db' = [db EXCEPT !.users = Append(@,
                 [id |-> task[s].new_id, email |-> task[s].email,
                  password |-> decode_latin1(hash_password("pw1")),
                  is_admin |-> 0])]
    /\ task' = [task EXCEPT ![s].pc = "created"]
    /\ UNCHANGED <<session, ev, now, cache, log, screen, remote>>

\* Lines 125-127: INSERT OR IGNORE; commit; return lastrowid.
RegInsertUser(s) ==
    /\ task[s].pc = "checked"
    /\ db.mode = "sqlite"
    /\ LET r == create_user(db, task[s].email, hash_password("pw1"), 0)
       IN  /\ db' = r.db
           /\ task' = [task EXCEPT ![s].pc = "created",
                                   ![s].new_id = r.ret]
    /\ UNCHANGED <<session, ev, now, cache, log, screen, remote>>

\* Lines 145-146: records = get_all_records(); new_id = len(records) + 1.
RegReadRegs(s) ==
    /\ task[s].pc = "created"
    /\ db.mode = "gsheets"
    /\ task' = [task EXCEPT ![s].pc = "regread",
                            ![s].reg_id = Len(db.regs) + 1]
    /\ UNCHANGED <<db, session, ev, now, cache, log, screen, remote>>

\* Lines 147-148: append_row([new_id] + list(data)).
RegAppendReg(s) ==
    /\ task[s].pc = "regread"
    /\ db' = [db EXCEPT !.regs = Append(@,
                 [id |-> task[s].reg_id, user_id |-> task[s].new_id,
                  full_name |-> "Asha", approved |-> ""])]
    /\ task' = [task EXCEPT ![s] = Idle]
    /\ UNCHANGED <<session, ev, now, cache, log, screen, remote>>

\* Lines 150-155: INSERT INTO registrations; commit.
RegInsertReg(s) ==
    /\ task[s].pc = "created"
    /\ db.mode = "sqlite"
    /\ db' = create_registration(db, <<task[s].new_id, "Asha">>)
    /\ task' = [task EXCEPT ![s] = Idle]
    /\ UNCHANGED <<session, ev, now, cache, log, screen, remote>>

ConcNext ==
    \/ \E s \in Sessions, email \in TraderEmails : RegGetUser(s, email)
    \/ \E s \in Sessions : RegReadUsers(s)
    \/ \E s \in Sessions : RegAppendUser(s)
    \/ \E s \in Sessions : RegInsertUser(s)
    \/ \E s \in Sessions : RegReadRegs(s)
    \/ \E s \in Sessions : RegAppendReg(s)
    \/ \E s \in Sessions : RegInsertReg(s)

ConcSpec == Init /\ [][ConcNext]_vars

(***************************************************************************)
(* The registration form on its own: one browser session submitting, the   *)
(* event keeping the whole submitted form.                                 *)
(***************************************************************************)
FormSessions == {1}

SubmitForm(s, f) ==
    /\ "Trader Registration" \in Offered(session[s])
    /\ Len(db.users) < MaxUsers
    /\ Len(db.regs) < MaxRegs
    /\ LET r == submit_registration(Boot(db), f)
       IN  /\ db' = r.db
           /\ ev' = Event("register", s, f.email, f.password, r.outcome,
                          FALSE, f)
    /\ UNCHANGED <<session, outside>>

FormNext ==
    \E s \in FormSessions :
        \/ RegistrationNameError(s)
        \/ \E f \in Forms : SubmitForm(s, f)

FormSpec == Init /\ [][FormNext]_vars

\* A form that the validation of lines 613-622 must refuse.
FormInvalid(f) ==
    \/ f.full_name = "" \/ f.email = "" \/ f.phone = <<>>
    \/ f.email \notin Emails
    \/ Len(f.phone) < MinPhoneLen
    \/ \E i \in DOMAIN f.phone : f.phone[i] \notin Digits
    \/ ~f.consent
    \/ f.about_words > MaxAboutWords

\* C11: a registration submission that fails validation creates neither an
\* account nor a registration (the run's bootstrap aside, the store is as
\* it was).
C11_InvalidFormNoWrite ==
    [][(/\ ev'.op = "register"
        /\ ev'.outcome # "NameError"
        /\ FormInvalid(ev'.arg))
       => /\ ev'.outcome # "Submitted"
          /\ db'.regs = db.regs
          /\ \/ db'.users = db.users
             \/ /\ db.users = <<>>
                /\ Len(db'.users) = 1
                /\ db'.users[1].email = admin_email]_vars

\* A form valid but for its 151 words was refused, with a trader stored.
C11_Witness ==
    /\ ev.op = "register"
    /\ ev.outcome = "AboutTooLong"
    /\ ev.arg.about_words = 151
    /\ ev.arg.consent
    /\ Len(db.users) >= 2

\* C12: every registration's user_id is the id of exactly one account, no
\* account has two registrations, and the registration a submission stores
\* carries the id of the account that submission created.
C12_OneToOne ==
    /\ \A j \in DOMAIN db.regs :
           Cardinality({i \in DOMAIN db.users :
                            db.users[i].id = db.regs[j].user_id}) = 1
    /\ \A i \in DOMAIN db.users :
           Cardinality({j \in DOMAIN db.regs :
                            db.regs[j].user_id = db.users[i].id}) <= 1
    /\ (ev.op = "register" /\ ev.outcome = "Submitted")
           => /\ db.users[Len(db.users)].email = ev.email
              /\ db.regs[Len(db.regs)].user_id = db.users[Len(db.users)].id

\* A second trader's registration was stored.
C12_Witness ==
    /\ ev.op = "register"
    /\ ev.outcome = "Submitted"
    /\ Len(db.regs) = 2

\* C13: after a get_today_prices call that failed or gave an empty result,
\* the next call performs a new fetch.
C13_EmptyNotCached ==
    \A i \in 1 .. (Len(log) - 1) :
        (/\ log[i].kind = "call"
         /\ empty(log[i].result)
         /\ log[i + 1].kind = "call")
            => log[i + 1].fetched

\* C14: of two get_today_prices calls with no clear between them, the
\* second inside the 60 seconds that follow the fetch of the first, only
\* the first fetches and the second returns the first's result.
C14_OneFetchPerWindow ==
    \A i \in DOMAIN log : \A j \in DOMAIN log :
        (/\ i < j
         /\ log[i].kind = "call" /\ log[i].fetched
         /\ log[j].kind = "call"
         /\ log[j].t < log[i].t + TTL
         /\ \A k \in i .. j : log[k].kind # "clear")
            => /\ ~log[j].fetched
               /\ log[j].result = log[i].result

\* A table was fetched at 0 and a later run, 30 seconds on, was served it.
C14_Witness ==
    /\ Len(log) >= 2
    /\ log[1].kind = "call" /\ log[1].fetched /\ ~empty(log[1].result)
    /\ log[2].kind = "call" /\ log[2].t = 30 /\ ~log[2].fetched
    /\ screen.page = "Dashboard"

\* C15: no page run ends in an unhandled error, whatever the fetches
\* answered.
C15_NeverCrashes == screen.state # "crash"

\* C17: the column a page took for the instrument's symbol is the column
\* either page takes for it from the same headers.
C17_SameResolution ==
    (screen.page \in {"Dashboard", "Portfolio"} /\ cache # <<>>)
        => /\ screen.symbol = dashboard_page(cache[1].value).symbol
           /\ screen.symbol = portfolio_page(cache[1].value).symbol

\* C16: a store call leaves the mode of the instance as it is, and a call
\* of an instance in gsheets mode made while the spreadsheet service is
\* unreachable fails.
C16_FailsWhenUnreachable ==
    [][(ev'.op \in StoreCalls)
        => /\ self_mode' = self_mode
           /\ (self_mode = "gsheets" /\ ~reachable)
                  => ev'.outcome = "Raised"]_vars

\* C18: whatever calls came before, get_user, the approval flag the login
\* check reads from get_registration, and get_pending_registrations give
\* the caller the same on the sqlite backend and on the gsheets backend.
C18_SameResults ==
    (ev.op \in {"get_user", "get_registration", "get_pending_registrations"})
        => ev.arg[1] = ev.arg[2]

\* C19: no two accounts share an id, so the registration get_registration
\* finds for an account's id is that account's own.
C19_UniqueIds ==
    \A i \in DOMAIN db.users : \A j \in DOMAIN db.users :
        db.users[i].id = db.users[j].id => i = j

====
